---- MODULE Spec2Model ----
(***************************************************************************)
(* jupyter_server/extension/manager.py: ExtensionPoint, ExtensionPackage   *)
(* and ExtensionManager.                                                   *)
(*                                                                         *)
(* Strings that the code orders (extension names) are sequences of         *)
(* character codes, compared as Python compares str values.  Python dicts  *)
(* are records [keys, val]: keys is the insertion order, val the mapping.  *)
(* An exception is a string; "none" means the call returned normally.      *)
(***************************************************************************)
EXTENDS Integers, Sequences, FiniteSets, TLC

\* Hook invocations the registry may have recorded before a further link or
\* load call is taken.
MaxCalls == 2

----------------------------------------------------------------------------
(* Python values *)

Range(s) == {s[i] : i \in DOMAIN s}

\* str.__lt__: lexicographic order on the code points.
RECURSIVE StrLess(_, _)
StrLess(s, t) ==
    IF s = <<>> THEN t # <<>>
    ELSE IF t = <<>> THEN FALSE
    ELSE IF Head(s) # Head(t) THEN Head(s) < Head(t)
    ELSE StrLess(Tail(s), Tail(t))

EmptyDict == [keys |-> <<>>, val |-> <<>>]

DictKeys(d) == Range(d.keys)

\* d[k] = v: a new key goes last, an old key keeps its place.
DictSet(d, k, v) ==
    [keys |-> IF k \in DictKeys(d) THEN d.keys ELSE Append(d.keys, k),
     val  |-> [x \in DictKeys(d) \cup {k} |-> IF x = k THEN v ELSE d.val[x]]]

\* d.get(k, default)
DictGet(d, k, default) == IF k \in DictKeys(d) THEN d.val[k] ELSE default

\* sorted(): ascending by key (keys of a dict are distinct, so the values are
\* never compared).
RECURSIVE InsertSorted(_, _)
InsertSorted(x, s) ==
    IF s = <<>> THEN <<x>>
    ELSE IF StrLess(x, Head(s)) THEN <<x>> \o s
    ELSE <<Head(s)>> \o InsertSorted(x, Tail(s))

RECURSIVE sorted(_)
sorted(s) == IF s = <<>> THEN <<>> ELSE InsertSorted(Head(s), sorted(Tail(s)))

\* None, and the objects a packet's "app" entry can hold: a factory, or the
\* application object the factory returns.
None == [kind |-> "None", name |-> "", link |-> "absent", load |-> "absent"]

truthy(x) == x.kind # "None"

\* app(): the factory called with no arguments.
CallFactory(f) == [f EXCEPT !.kind = "app"]

----------------------------------------------------------------------------
(* The environment: installed modules and extension packages *)

\* Importable modules and the conventional hooks each defines.
ModuleTable ==
    [modOk        |-> [link |-> "ok",     load |-> "ok"],
     modOk2       |-> [link |-> "ok",     load |-> "ok"],
     pkgX         |-> [link |-> "absent", load |-> "absent"],
     modLinkRaise |-> [link |-> "raise",  load |-> "ok"],
     modLoadRaise |-> [link |-> "ok",     load |-> "raise"],
     modNoHooks   |-> [link |-> "absent", load |-> "absent"]]

\* importlib.import_module(name) raises ImportError for any other name.
Importable == DOMAIN ModuleTable

FactoryX == [kind |-> "factory", name |-> "X", link |-> "ok", load |-> "ok"]

\* Metadata packet sequences an extension package can declare.
MD_AppNamed  == << [module |-> "pkgX", app |-> FactoryX],
                   [module |-> "modOk", name |-> "P"] >>
MD_NoHooks   == << [module |-> "modNoHooks"] >>
MD_BadPacket == << [module |-> "pkgX", app |-> FactoryX], [name |-> "Q"],
                   [module |-> "modOk"] >>
MD_Raise     == << [module |-> "modLinkRaise"], [module |-> "modLoadRaise"],
                   [module |-> "modOk"] >>
MD_Dup       == << [module |-> "modOk", name |-> "P"],
                   [module |-> "modOk2", name |-> "P"] >>
MD_Missing   == << [module |-> "notInstalled"] >>

\* Extension names "a", "ab", "b".
Names == { <<1>>, <<1, 2>>, <<2>> }

Found(md) == [exc |-> "none", value |-> md]
NotFound  == [exc |-> "ImportError", value |-> <<>>]

\* utils.get_metadata(name): the packets the package declares when it is
\* asked, or ImportError.
get_metadata(name) ==
    IF name = <<1>>
    THEN {Found(MD_AppNamed), Found(MD_NoHooks), Found(MD_BadPacket)}
    ELSE IF name = <<1, 2>> THEN {Found(MD_Raise), NotFound}
    ELSE {Found(MD_Dup), Found(MD_Missing)}

----------------------------------------------------------------------------
(* State *)

VARIABLES
    _enabled_extensions,   \* ExtensionManager._enabled_extensions (class attribute)
    _linked_extensions,    \* ExtensionManager._linked_extensions (class attribute)
    _linked_points,        \* ExtensionPackage._linked_points (class attribute)
    call,                  \* the latest call on a manager and how it ended
    events                 \* what that call did, in order

vars == <<_enabled_extensions, _linked_extensions, _linked_points, call, events>>

\* The ExtensionManager instances of the process.
Managers == {1, 2}

\* One thing a call did: ev is what ("add_extension", "link_extension" and
\* "load_extension" when such a call starts, "factory", "link_hook",
\* "link_default" and "load_hook" when that callable is invoked, "raised" when
\* an exception is raised, "warning" and "debug" for self.log), point the
\* point, module or exception it concerns, ext the extension.
Event(ev, point) == [ev |-> ev, ext |-> <<>>, point |-> point]

Raised(exc) == <<Event("raised", exc)>>

\* The events of one extension's processing, labelled with its name.
Tag(evs, ext) == [i \in DOMAIN evs |-> [evs[i] EXCEPT !.ext = ext]]

----------------------------------------------------------------------------
(* class ExtensionPoint *)

\* A point is [metadata, _module_name, nlink, nload, napp]: the validated
\* packet, the module name, and how often this point's link hook, load hook
\* and app factory have been invoked.

\* _valid_metadata storing the packet as given, its factory never called.
_valid_metadata_keeps_factory(metadata) ==
    IF "module" \notin DOMAIN metadata
    THEN [exc |-> "ExtensionMetadataError", point |-> None,
          events |-> Raised("ExtensionMetadataError")]
    ELSE IF metadata.module \notin Importable
    THEN [exc |-> "ExtensionModuleNotFound", point |-> None,
          events |-> Raised("ExtensionModuleNotFound")]
    ELSE [exc |-> "none",
          point |-> [metadata |-> metadata, _module_name |-> metadata.module,
                     nlink |-> 0, nload |-> 0, napp |-> 0],
          events |-> <<>>]

\* ExtensionPoint.metadata validator; construction runs it on the packet
\* given, so the packet it reads "app" from is the packet being validated.
_valid_metadata(metadata) ==
    IF "module" \notin DOMAIN metadata
    THEN [exc |-> "ExtensionMetadataError", point |-> None,
          events |-> Raised("ExtensionMetadataError")]
    ELSE IF metadata.module \notin Importable
    THEN [exc |-> "ExtensionModuleNotFound", point |-> None,
          events |-> Raised("ExtensionModuleNotFound")]
    ELSE LET app == IF "app" \in DOMAIN metadata THEN metadata.app ELSE None
         IN  [exc |-> "none",
              point |-> [metadata |-> IF truthy(app)
                                      THEN [metadata EXCEPT !.app = CallFactory(app)]
                                      ELSE metadata,
                         _module_name |-> metadata.module,
                         nlink |-> 0, nload |-> 0,
                         napp |-> IF truthy(app) THEN 1 ELSE 0],
              events |-> IF truthy(app)
                         THEN <<Event("factory", metadata.module)>>
                         ELSE <<>>]

\* ExtensionPoint.app
app(point) ==
    IF "app" \in DOMAIN point.metadata THEN point.metadata.app ELSE None

\* ExtensionPoint.module_name
module_name(point) == point._module_name

\* ExtensionPoint.module
module(point) == ModuleTable[point._module_name]

\* name falling back to the packet although the point has an app.
name_ignores_app(point) ==
    IF "name" \in DOMAIN point.metadata THEN point.metadata.name
    ELSE module_name(point)

\* ExtensionPoint.name
name(point) ==
    IF truthy(app(point)) THEN app(point).name
    ELSE IF "name" \in DOMAIN point.metadata THEN point.metadata.name
    ELSE module_name(point)

\* link looking the hook up without a default, as load does.
link_requires_hook(point) ==
    LET linker == IF truthy(app(point)) THEN app(point).link
                  ELSE module(point).link
    IN  IF linker = "absent"
        THEN [exc |-> "AttributeError", point |-> point,
              events |-> Raised("AttributeError")]
        ELSE [exc |-> IF linker = "raise" THEN "HookError" ELSE "none",
              point |-> [point EXCEPT !.nlink = @ + 1],
              events |-> <<Event("link_hook", name(point))>>
                         \o (IF linker = "raise" THEN Raised("HookError")
                             ELSE <<>>)]

\* ExtensionPoint.link: "absent" stands for the dummy lambda getattr falls
\* back to.
link(point) ==
    LET linker == IF truthy(app(point)) THEN app(point).link
                  ELSE module(point).link
    IN  [exc |-> IF linker = "raise" THEN "HookError" ELSE "none",
         point |-> IF linker = "absent" THEN point
                   ELSE [point EXCEPT !.nlink = @ + 1],
         events |-> <<Event(IF linker = "absent" THEN "link_default"
                            ELSE "link_hook", name(point))>>
                    \o (IF linker = "raise" THEN Raised("HookError") ELSE <<>>)]

\* utils.get_loader(obj): the object's load hook, or an error when it has none.
get_loader(obj) ==
    IF obj.load = "absent" THEN [exc |-> "LoaderNotFound", hook |-> "absent"]
    ELSE [exc |-> "none", hook |-> obj.load]

\* ExtensionPoint.load
load(point) ==
    LET loc == IF truthy(app(point)) THEN app(point) ELSE module(point)
        loader == get_loader(loc)
    IN  IF loader.exc # "none"
        THEN [exc |-> loader.exc, point |-> point, events |-> Raised(loader.exc)]
        ELSE [exc |-> IF loader.hook = "raise" THEN "HookError" ELSE "none",
              point |-> [point EXCEPT !.nload = @ + 1],
              events |-> <<Event("load_hook", name(point))>>
                         \o (IF loader.hook = "raise" THEN Raised("HookError")
                             ELSE <<>>)]

----------------------------------------------------------------------------
(* class ExtensionPackage *)

\* The loop of _validate_name keeping the first point of a name.
RECURSIVE build_points_first_wins(_, _, _, _)
build_points_first_wins(ms, i, points, evs) ==
    IF i > Len(ms) THEN [exc |-> "none", points |-> points, events |-> evs]
    ELSE LET r == _valid_metadata(ms[i])
         IN  IF r.exc # "none"
             THEN [exc |-> r.exc, points |-> points, events |-> evs \o r.events]
             ELSE build_points_first_wins(
                      ms, i + 1,
                      IF name(r.point) \in DictKeys(points) THEN points
                      ELSE DictSet(points, name(r.point), r.point),
                      evs \o r.events)

\* The loop of _validate_name passing over a packet that does not validate.
RECURSIVE build_points_skips_bad(_, _, _, _)
build_points_skips_bad(ms, i, points, evs) ==
    IF i > Len(ms) THEN [exc |-> "none", points |-> points, events |-> evs]
    ELSE LET r == _valid_metadata(ms[i])
         IN  IF r.exc # "none"
             THEN build_points_skips_bad(ms, i + 1, points, evs)
             ELSE build_points_skips_bad(ms, i + 1,
                                         DictSet(points, name(r.point), r.point),
                                         evs \o r.events)

\* The loop of _validate_name over the packets, from packet i on.
RECURSIVE build_points(_, _, _, _)
build_points(ms, i, points, evs) ==
    IF i > Len(ms) THEN [exc |-> "none", points |-> points, events |-> evs]
    ELSE LET r == _valid_metadata(ms[i])
         IN  IF r.exc # "none"
             THEN [exc |-> r.exc, points |-> points, events |-> evs \o r.events]
             ELSE build_points(ms, i + 1,
                               DictSet(points, name(r.point), r.point),
                               evs \o r.events)

\* ExtensionPackage(name=extension_name), with md what get_metadata answers.
_validate_name(extension_name, md) ==
    IF md.exc # "none"
    THEN [exc |-> "ExtensionModuleNotFound", pkg |-> None,
          events |-> Raised("ExtensionModuleNotFound")]
    ELSE LET r == build_points(md.value, 1, EmptyDict, <<>>)
         IN  [exc |-> r.exc,
              pkg |-> [name |-> extension_name,
                       _metadata |-> md.value,
                       _extension_points |-> r.points],
              events |-> r.events]

\* ExtensionPackage.extension_points
extension_points(pkg) == pkg._extension_points

\* ExtensionPackage.link_point
link_point(pkg, point_name) ==
    LET linked == DictGet(_linked_points, point_name, FALSE)
    IN  IF ~linked
        THEN LET r == link(extension_points(pkg).val[point_name])
             IN  [exc |-> r.exc,
                  pkg |-> [pkg EXCEPT !._extension_points.val[point_name] = r.point],
                  events |-> r.events]
        ELSE [exc |-> "none", pkg |-> pkg, events |-> <<>>]

\* load_point loading only a point whose link hook has run.
load_point_requires_link(pkg, point_name) ==
    LET r == load(extension_points(pkg).val[point_name])
    IN  IF extension_points(pkg).val[point_name].nlink = 0
        THEN [exc |-> "none", pkg |-> pkg, events |-> <<>>]
        ELSE [exc |-> r.exc,
              pkg |-> [pkg EXCEPT !._extension_points.val[point_name] = r.point],
              events |-> r.events]

\* ExtensionPackage.load_point
load_point(pkg, point_name) ==
    LET r == load(extension_points(pkg).val[point_name])
    IN  [exc |-> r.exc,
         pkg |-> [pkg EXCEPT !._extension_points.val[point_name] = r.point],
         events |-> r.events]

\* The loop of link_all_points, from the i-th point on.
RECURSIVE link_points_from(_, _, _)
link_points_from(pkg, i, evs) ==
    IF i > Len(extension_points(pkg).keys)
    THEN [exc |-> "none", pkg |-> pkg, events |-> evs]
    ELSE LET r == link_point(pkg, extension_points(pkg).keys[i])
         IN  IF r.exc # "none"
             THEN [exc |-> r.exc, pkg |-> r.pkg, events |-> evs \o r.events]
             ELSE link_points_from(r.pkg, i + 1, evs \o r.events)

\* ExtensionPackage.link_all_points
link_all_points(pkg) == link_points_from(pkg, 1, <<>>)

\* The loop of load_all_points going on after a point failed.
RECURSIVE load_points_from_continues(_, _, _)
load_points_from_continues(pkg, i, evs) ==
    IF i > Len(extension_points(pkg).keys)
    THEN [exc |-> "none", pkg |-> pkg, events |-> evs]
    ELSE LET r == load_point(pkg, extension_points(pkg).keys[i])
         IN  load_points_from_continues(r.pkg, i + 1, evs \o r.events)

\* The loop of load_all_points, from the i-th point on.
RECURSIVE load_points_from(_, _, _)
load_points_from(pkg, i, evs) ==
    IF i > Len(extension_points(pkg).keys)
    THEN [exc |-> "none", pkg |-> pkg, events |-> evs]
    ELSE LET r == load_point(pkg, extension_points(pkg).keys[i])
         IN  IF r.exc # "none"
             THEN [exc |-> r.exc, pkg |-> r.pkg, events |-> evs \o r.events]
             ELSE load_points_from(r.pkg, i + 1, evs \o r.events)

\* ExtensionPackage.load_all_points
load_all_points(pkg) == load_points_from(pkg, 1, <<>>)

----------------------------------------------------------------------------
(* class ExtensionManager; ee is the value of _enabled_extensions *)

\* enabled_extensions handing out the registry in insertion order.
enabled_extensions_unsorted(ee) == ee

\* ExtensionManager.enabled_extensions: dict(sorted(items)).
enabled_extensions(ee) == [keys |-> sorted(ee.keys), val |-> ee.val]

\* self._enabled_extensions and self._linked_extensions as instance self
\* finds them: no method assigns either attribute on an instance, so the
\* lookup ends at the class attribute, one dict for all instances.
manager_enabled_extensions(self) == enabled_extensions(_enabled_extensions)

manager_linked_extensions(self) == _linked_extensions

\* add_extension registering the package before its construction is known to
\* have succeeded.
add_extension_registers_first(ee, extension_name, md) ==
    LET r == _validate_name(extension_name, md)
        begin == <<Event("add_extension", "")>>
    IN  [exc |-> "none",
         ee |-> IF md.exc = "none" THEN DictSet(ee, extension_name, r.pkg)
                ELSE ee,
         events |-> Tag(begin \o r.events \o
                        (IF r.exc = "none" THEN <<>>
                         ELSE <<Event("warning", r.exc)>>),
                        extension_name)]

\* add_extension dropping the name's entry when construction fails.
add_extension_discards_on_failure(ee, extension_name, md) ==
    LET r == _validate_name(extension_name, md)
        begin == <<Event("add_extension", "")>>
    IN  IF r.exc = "none"
        THEN [exc |-> "none",
              ee |-> DictSet(ee, extension_name, r.pkg),
              events |-> Tag(begin \o r.events, extension_name)]
        ELSE [exc |-> "none",
              ee |-> [keys |-> SelectSeq(ee.keys,
                                         LAMBDA k : k # extension_name),
                      val |-> [k \in DictKeys(ee) \ {extension_name} |->
                                  ee.val[k]]],
              events |-> Tag(begin \o r.events \o <<Event("warning", r.exc)>>,
                             extension_name)]

\* ExtensionManager.add_extension, with md what get_metadata answers.
add_extension(ee, extension_name, md) ==
    LET r == _validate_name(extension_name, md)
        begin == <<Event("add_extension", "")>>
    IN  IF r.exc = "none"
        THEN [exc |-> "none",
              ee |-> DictSet(ee, extension_name, r.pkg),
              events |-> Tag(begin \o r.events, extension_name)]
        ELSE [exc |-> "none",
              ee |-> ee,
              events |-> Tag(begin \o r.events \o <<Event("warning", r.exc)>>,
                             extension_name)]

\* The loop of from_jpserver_extensions leaving at the first item that is not
\* enabled.
RECURSIVE add_from_stops_at_disabled(_, _, _, _, _)
add_from_stops_at_disabled(ee, items, answers, i, evs) ==
    IF i > Len(items) \/ ~items[i].enabled
    THEN [exc |-> "none", ee |-> ee, events |-> evs]
    ELSE LET r == add_extension(ee, items[i].name, answers[i])
         IN  add_from_stops_at_disabled(r.ee, items, answers, i + 1,
                                        evs \o r.events)

\* The loop of from_jpserver_extensions from the i-th item on; items is the
\* mapping in its iteration order and answers[i] is what get_metadata
\* answers when the i-th item is added.
RECURSIVE add_from(_, _, _, _, _)
add_from(ee, items, answers, i, evs) ==
    IF i > Len(items) THEN [exc |-> "none", ee |-> ee, events |-> evs]
    ELSE IF items[i].enabled
    THEN LET r == add_extension(ee, items[i].name, answers[i])
         IN  add_from(r.ee, items, answers, i + 1, evs \o r.events)
    ELSE add_from(ee, items, answers, i + 1, evs)

\* ExtensionManager.from_jpserver_extensions
from_jpserver_extensions(ee, items, answers) ==
    add_from(ee, items, answers, 1, <<>>)

\* link_extension looking the name up with .get, as load_extension does.
link_extension_lenient(ee, extension_name) ==
    LET begin == <<Event("link_extension", "")>>
    IN  IF extension_name \notin DictKeys(enabled_extensions(ee))
        THEN [exc |-> "none", ee |-> ee,
              events |-> Tag(begin \o Raised("AttributeError")
                             \o <<Event("warning", "AttributeError")>>,
                             extension_name)]
        ELSE LET r == link_all_points(enabled_extensions(ee).val[extension_name])
                 end == IF r.exc = "none" THEN Event("debug", "")
                        ELSE Event("warning", r.exc)
             IN  [exc |-> "none",
                  ee |-> [ee EXCEPT !.val[extension_name] = r.pkg],
                  events |-> Tag(begin \o r.events \o <<end>>, extension_name)]

\* link_extension without its try/except.
link_extension_uncaught(ee, extension_name) ==
    LET linked == DictGet(_linked_extensions, extension_name, FALSE)
        begin == <<Event("link_extension", "")>>
    IN  IF extension_name \notin DictKeys(enabled_extensions(ee))
        THEN [exc |-> "KeyError", ee |-> ee,
              events |-> Tag(begin \o Raised("KeyError"), extension_name)]
        ELSE IF ~linked
        THEN LET r == link_all_points(enabled_extensions(ee).val[extension_name])
             IN  [exc |-> r.exc,
                  ee |-> [ee EXCEPT !.val[extension_name] = r.pkg],
                  events |-> Tag(begin \o r.events \o
                                 (IF r.exc = "none" THEN <<Event("debug", "")>>
                                  ELSE <<>>),
                                 extension_name)]
        ELSE [exc |-> "none", ee |-> ee, events |-> Tag(begin, extension_name)]

\* ExtensionManager.link_extension
link_extension(ee, extension_name) ==
    LET linked == DictGet(_linked_extensions, extension_name, FALSE)
        begin == <<Event("link_extension", "")>>
    IN  IF extension_name \notin DictKeys(enabled_extensions(ee))
        THEN [exc |-> "KeyError", ee |-> ee,
              events |-> Tag(begin \o Raised("KeyError"), extension_name)]
        ELSE IF ~linked
        THEN LET r == link_all_points(enabled_extensions(ee).val[extension_name])
                 end == IF r.exc = "none" THEN Event("debug", "")
                        ELSE Event("warning", r.exc)
             IN  [exc |-> "none",
                  ee |-> [ee EXCEPT !.val[extension_name] = r.pkg],
                  events |-> Tag(begin \o r.events \o <<end>>, extension_name)]
        ELSE [exc |-> "none", ee |-> ee, events |-> Tag(begin, extension_name)]

\* load_extension looking the name up by subscript before its try, as
\* link_extension does.
load_extension_strict(ee, extension_name) ==
    LET begin == <<Event("load_extension", "")>>
    IN  IF extension_name \notin DictKeys(enabled_extensions(ee))
        THEN [exc |-> "KeyError", ee |-> ee,
              events |-> Tag(begin \o Raised("KeyError"), extension_name)]
        ELSE LET r == load_all_points(enabled_extensions(ee).val[extension_name])
             IN  [exc |-> "none",
                  ee |-> [ee EXCEPT !.val[extension_name] = r.pkg],
                  events |-> Tag(begin \o r.events \o
                                 (IF r.exc = "none" THEN <<>>
                                  ELSE <<Event("warning", r.exc)>>),
                                 extension_name)]

\* load_extension without its try/except.
load_extension_uncaught(ee, extension_name) ==
    LET begin == <<Event("load_extension", "")>>
    IN  IF extension_name \notin DictKeys(enabled_extensions(ee))
        THEN [exc |-> "AttributeError", ee |-> ee,
              events |-> Tag(begin \o Raised("AttributeError"), extension_name)]
        ELSE LET r == load_all_points(enabled_extensions(ee).val[extension_name])
             IN  [exc |-> r.exc,
                  ee |-> [ee EXCEPT !.val[extension_name] = r.pkg],
                  events |-> Tag(begin \o r.events, extension_name)]

\* ExtensionManager.load_extension: .get(name) gives None for a name that is
\* not enabled, and None has no load_all_points.
load_extension(ee, extension_name) ==
    LET begin == <<Event("load_extension", "")>>
    IN  IF extension_name \notin DictKeys(enabled_extensions(ee))
        THEN [exc |-> "none", ee |-> ee,
              events |-> Tag(begin \o Raised("AttributeError")
                             \o <<Event("warning", "AttributeError")>>,
                             extension_name)]
        ELSE LET r == load_all_points(enabled_extensions(ee).val[extension_name])
             IN  [exc |-> "none",
                  ee |-> [ee EXCEPT !.val[extension_name] = r.pkg],
                  events |-> Tag(begin \o r.events \o
                                 (IF r.exc = "none" THEN <<>>
                                  ELSE <<Event("warning", r.exc)>>),
                                 extension_name)]

\* The loop of link_all_extensions over names, the keys of enabled_extensions
\* taken when the loop starts.
RECURSIVE link_from(_, _, _, _)
link_from(ee, names, i, evs) ==
    IF i > Len(names) THEN [exc |-> "none", ee |-> ee, events |-> evs]
    ELSE LET r == link_extension(ee, names[i])
         IN  IF r.exc # "none"
             THEN [exc |-> r.exc, ee |-> r.ee, events |-> evs \o r.events]
             ELSE link_from(r.ee, names, i + 1, evs \o r.events)

\* link_all_extensions iterating the registry as it was filled.
link_all_extensions_unsorted(ee) == link_from(ee, ee.keys, 1, <<>>)

\* ExtensionManager.link_all_extensions
link_all_extensions(ee) == link_from(ee, enabled_extensions(ee).keys, 1, <<>>)

\* The loop of load_all_extensions.
RECURSIVE load_from(_, _, _, _)
load_from(ee, names, i, evs) ==
    IF i > Len(names) THEN [exc |-> "none", ee |-> ee, events |-> evs]
    ELSE LET r == load_extension(ee, names[i])
         IN  IF r.exc # "none"
             THEN [exc |-> r.exc, ee |-> r.ee, events |-> evs \o r.events]
             ELSE load_from(r.ee, names, i + 1, evs \o r.events)

\* ExtensionManager.load_all_extensions
load_all_extensions(ee) == load_from(ee, enabled_extensions(ee).keys, 1, <<>>)

----------------------------------------------------------------------------
(* Inputs and bounds *)

RECURSIVE SumSeq(_)
SumSeq(s) == IF s = <<>> THEN 0 ELSE Head(s) + SumSeq(Tail(s))

\* Hook invocations recorded on the points of a package, and of the registry.
PackageCalls(pkg) ==
    LET ps == extension_points(pkg)
    IN  SumSeq([i \in DOMAIN ps.keys |->
                   ps.val[ps.keys[i]].nlink + ps.val[ps.keys[i]].nload])

TotalCalls(ee) ==
    SumSeq([i \in DOMAIN ee.keys |-> PackageCalls(ee.val[ee.keys[i]])])

CallsLeft == TotalCalls(_enabled_extensions) < MaxCalls

Item(n, enabled) == [name |-> n, enabled |-> enabled]

\* jpserver_extensions dictionaries, as their items in iteration order.
JpserverExtensions ==
    { << Item(<<2>>, TRUE),     Item(<<1>>, TRUE),  Item(<<1, 2>>, FALSE) >>,
      << Item(<<1, 2>>, TRUE),  Item(<<1>>, FALSE), Item(<<2>>, TRUE) >>,
      << Item(<<1, 2>>, FALSE), Item(<<1>>, TRUE),  Item(<<2>>, FALSE) >> }

\* What get_metadata may answer when the i-th item of items is added.
Answers(items, i) ==
    IF items[i].enabled THEN get_metadata(items[i].name) ELSE {NotFound}

NoItems == <<>>

Call(op, self, ext, items, exc) ==
    [op |-> op, self |-> self, ext |-> ext, items |-> items, exc |-> exc]

----------------------------------------------------------------------------
(* Behaviour *)

Init ==
    /\ _enabled_extensions = EmptyDict
    /\ _linked_extensions = EmptyDict
    /\ _linked_points = EmptyDict
    /\ call = Call("init", 1, <<>>, NoItems, "none")
    /\ events = <<>>

Returns(self, op, ext, items, r) ==
    /\ _enabled_extensions' = r.ee
    /\ call' = Call(op, self, ext, items, r.exc)
    /\ events' = r.events

AddExtension(self, ext) ==
    /\ UNCHANGED <<_linked_extensions, _linked_points>>
    /\ \E md \in get_metadata(ext) :
          Returns(self, "add_extension", ext, NoItems,
                  add_extension(_enabled_extensions, ext, md))

FromJpserverExtensions(self, items) ==
    /\ UNCHANGED <<_linked_extensions, _linked_points>>
    /\ \E a1 \in Answers(items, 1), a2 \in Answers(items, 2),
          a3 \in Answers(items, 3) :
          Returns(self, "from_jpserver_extensions", <<>>, items,
                  from_jpserver_extensions(_enabled_extensions, items,
                                           <<a1, a2, a3>>))

\* link_extension recording a successful link in _linked_extensions.
LinkExtension_records(self, ext) ==
    /\ CallsLeft
    /\ _linked_extensions' =
          IF ext \in DictKeys(_enabled_extensions)
          THEN DictSet(_linked_extensions, ext, TRUE)
          ELSE _linked_extensions
    /\ UNCHANGED _linked_points
    /\ Returns(self, "link_extension", ext, NoItems,
               link_extension(_enabled_extensions, ext))

LinkExtension(self, ext) ==
    /\ CallsLeft
    /\ UNCHANGED <<_linked_extensions, _linked_points>>
    /\ Returns(self, "link_extension", ext, NoItems,
               link_extension(_enabled_extensions, ext))

LoadExtension(self, ext) ==
    /\ CallsLeft
    /\ UNCHANGED <<_linked_extensions, _linked_points>>
    /\ Returns(self, "load_extension", ext, NoItems,
               load_extension(_enabled_extensions, ext))

LinkAllExtensions(self) ==
    /\ CallsLeft
    /\ UNCHANGED <<_linked_extensions, _linked_points>>
    /\ Returns(self, "link_all_extensions", <<>>, NoItems,
               link_all_extensions(_enabled_extensions))

LoadAllExtensions(self) ==
    /\ CallsLeft
    /\ UNCHANGED <<_linked_extensions, _linked_points>>
    /\ Returns(self, "load_all_extensions", <<>>, NoItems,
               load_all_extensions(_enabled_extensions))

Next ==
    \E self \in Managers :
        \/ \E ext \in Names : AddExtension(self, ext)
        \/ \E items \in JpserverExtensions : FromJpserverExtensions(self, items)
        \/ \E ext \in Names : LinkExtension(self, ext)
        \/ \E ext \in Names : LoadExtension(self, ext)
        \/ LinkAllExtensions(self)
        \/ LoadAllExtensions(self)

Spec == Init /\ [][Next]_vars

----------------------------------------------------------------------------
(* Properties *)

Registry == _enabled_extensions

EnabledNames == DictKeys(Registry)

Package(n) == Registry.val[n]

PointNames(n) == DictKeys(extension_points(Package(n)))

Point(n, k) == extension_points(Package(n)).val[k]

Ascending(ks) == \A i \in 1..(Len(ks) - 1) : StrLess(ks[i], ks[i + 1])

\* The positions in evs of the events of kind ev.
At(evs, ev) == {i \in DOMAIN evs : evs[i].ev = ev}

HookEvents == {"link_hook", "link_default", "load_hook"}

\* The extensions a call started to link or load, in order.
RECURSIVE Attempts(_, _)
Attempts(evs, ev) ==
    IF evs = <<>> THEN <<>>
    ELSE (IF Head(evs).ev = ev THEN <<Head(evs).ext>> ELSE <<>>)
         \o Attempts(Tail(evs), ev)

\* The names a jpserver_extensions dictionary maps to true.
TrueNames(items) == {items[i].name : i \in {j \in DOMAIN items : items[j].enabled}}

\* C1: enabled_extensions lists the registry's names in strictly ascending
\* order, whatever order they were added in and whichever additions failed.
C1_SortedEnumeration ==
    LET ks == enabled_extensions(Registry).keys
    IN  /\ Ascending(ks)
        /\ Range(ks) = EnabledNames
        /\ Len(ks) = Cardinality(EnabledNames)

\* Three names added out of order, the latest addition having failed.
C1_Witness ==
    /\ Len(Registry.keys) = Cardinality(Names)
    /\ ~Ascending(Registry.keys)
    /\ call.op = "add_extension"
    /\ At(events, "warning") # {}

\* C2: no point's link hook and no point's load hook is invoked more than
\* once.
C2_AtMostOncePerPhase ==
    \A n \in EnabledNames : \A k \in PointNames(n) :
        Point(n, k).nlink <= 1 /\ Point(n, k).nload <= 1

\* C3: load_all_extensions returns normally, and after an extension's load
\* raised (its hook raised, or it has no load hook) load_extension is still
\* started for every enabled name that sorts later.
C3_LoadFailureIsolated ==
    call.op = "load_all_extensions" =>
        /\ call.exc = "none"
        /\ \A i \in At(events, "raised") :
              \A n \in EnabledNames :
                  StrLess(events[i].ext, n) =>
                      \E j \in At(events, "load_extension") :
                          j > i /\ events[j].ext = n

\* One load_all_extensions call in which "a" has no load hook, a load hook of
\* "ab" raises, and the load hook of "b" runs.
C3_Witness ==
    /\ call.op = "load_all_extensions"
    /\ \E i \in At(events, "raised") :
          events[i].ext = <<1>> /\ events[i].point = "LoaderNotFound"
    /\ \E i \in At(events, "raised") :
          events[i].ext = <<1, 2>> /\ events[i].point = "HookError"
    /\ \E i \in At(events, "load_hook") : events[i].ext = <<2>>

\* C4: link_all_extensions returns normally; after an extension's link hook
\* raised, a warning is logged for that extension and link_extension is still
\* started for every enabled name that sorts later.
C4_LinkFailureIsolated ==
    call.op = "link_all_extensions" =>
        /\ call.exc = "none"
        /\ \A i \in At(events, "raised") :
              /\ \E j \in At(events, "warning") :
                    j > i /\ events[j].ext = events[i].ext
              /\ \A n \in EnabledNames :
                    StrLess(events[i].ext, n) =>
                        \E j \in At(events, "link_extension") :
                            j > i /\ events[j].ext = n

\* One link_all_extensions call in which a link hook of "ab" raises and the
\* link hook of "b" runs.
C4_Witness ==
    /\ call.op = "link_all_extensions"
    /\ \E i \in At(events, "raised") :
          events[i].ext = <<1, 2>> /\ events[i].point = "HookError"
    /\ \E i \in At(events, "link_hook") : events[i].ext = <<2>>

\* C5 as stated: after add_extension failed to construct the package, the
\* call has returned normally, a warning is logged and the name is not
\* enabled.
C5_AbsentAfterFailure ==
    (call.op = "add_extension" /\ At(events, "raised") # {}) =>
        /\ call.exc = "none"
        /\ At(events, "warning") # {}
        /\ call.ext \notin DictKeys(enabled_extensions(Registry))

\* C5, amended: an add_extension that fails to construct the package returns
\* normally, logs a warning and leaves the registry as it was, so the name is
\* enabled afterwards only if it was enabled before, with its earlier
\* package, and every other entry is unchanged.
C5_FailedAddLeavesRegistry ==
    [][(call'.op = "add_extension" /\ At(events', "raised") # {}) =>
          /\ call'.exc = "none"
          /\ \E j \in At(events', "warning") : events'[j].ext = call'.ext
          /\ _enabled_extensions' = _enabled_extensions]_vars

\* A failed add_extension of a name that is not enabled, other names being
\* enabled.
C5_Witness ==
    /\ call.op = "add_extension"
    /\ At(events, "raised") # {}
    /\ call.ext \notin EnabledNames
    /\ EnabledNames # {}

C8_FactoryOnceAtValidation ==
    /\ \A n \in EnabledNames : \A k \in PointNames(n) :
          IF "app" \in DOMAIN Point(n, k).metadata
          THEN Point(n, k).napp = 1 /\ Point(n, k).metadata.app.kind = "app"
          ELSE Point(n, k).napp = 0
    /\ call.op \in {"link_extension", "load_extension",
                    "link_all_extensions", "load_all_extensions"} =>
          At(events, "factory") = {}
    /\ (call.op = "add_extension" /\ At(events, "raised") = {}) =>
          Cardinality(At(events, "factory"))
              = Cardinality({i \in DOMAIN Package(call.ext)._metadata :
                                "app" \in DOMAIN Package(call.ext)._metadata[i]})

\* A link call has just invoked the link hook of a point that has an app.
C8_Witness ==
    /\ call.op \in {"link_extension", "link_all_extensions"}
    /\ \E n \in EnabledNames : \E k \in PointNames(n) :
          /\ "app" \in DOMAIN Point(n, k).metadata
          /\ Point(n, k).nlink >= 1
          /\ \E i \in At(events, "link_hook") :
                events[i].ext = n /\ events[i].point = k

\* C9: from_jpserver_extensions on an empty registry, every added name
\* resolving, leaves exactly the names mapped to true enabled, enumerated in
\* ascending order; and the link_all_extensions or load_all_extensions call
\* that follows starts link_extension or load_extension for exactly those
\* names, in ascending order.
C9_FromEnabledMap ==
    [][/\ (/\ call'.op = "from_jpserver_extensions"
           /\ _enabled_extensions = EmptyDict
           /\ At(events', "raised") = {}) =>
             /\ Range(enabled_extensions(_enabled_extensions').keys)
                    = TrueNames(call'.items)
             /\ Ascending(enabled_extensions(_enabled_extensions').keys)
       /\ (/\ call.op = "from_jpserver_extensions"
           /\ EnabledNames = TrueNames(call.items)
           /\ call'.op \in {"link_all_extensions", "load_all_extensions"}) =>
             LET started == Attempts(events',
                                     IF call'.op = "link_all_extensions"
                                     THEN "link_extension"
                                     ELSE "load_extension")
             IN  /\ Ascending(started)
                 /\ Range(started) = TrueNames(call.items)]_vars

\* from_jpserver_extensions has enabled exactly the two names its dictionary
\* maps to true, which it added in descending order.
C9_Witness ==
    /\ call.op = "from_jpserver_extensions"
    /\ At(events, "raised") = {}
    /\ EnabledNames = TrueNames(call.items)
    /\ Cardinality(EnabledNames) = 2
    /\ ~Ascending(Registry.keys)

\* The name the point of a packet is to have: the app's name, else the
\* packet's "name", else the module name.
DeclaredName(packet) ==
    IF "app" \in DOMAIN packet THEN packet.app.name
    ELSE IF "name" \in DOMAIN packet THEN packet.name
    ELSE packet.module

\* C10: a package indexes its points by the names its packets declare, each
\* point under its own declared name; the point of a packet with module
\* "pkgX" and an app named "X" is indexed under "X".
C10_PointName ==
    \A n \in EnabledNames :
        /\ PointNames(n) = {DeclaredName(Package(n)._metadata[i]) :
                               i \in DOMAIN Package(n)._metadata}
        /\ \A k \in PointNames(n) : DeclaredName(Point(n, k).metadata) = k
        /\ \A i \in DOMAIN Package(n)._metadata :
              LET m == Package(n)._metadata[i]
              IN  (m.module = "pkgX" /\ "app" \in DOMAIN m) =>
                      ("X" \in PointNames(n) /\ "pkgX" \notin PointNames(n))

\* "a" is enabled with its app point "X" and its named point "P".
C10_Witness ==
    /\ <<1>> \in EnabledNames
    /\ extension_points(Package(<<1>>)).keys = <<"X", "P">>

LinkOps == {"link_extension", "link_all_extensions"}

LoadOps == {"load_extension", "load_all_extensions"}

\* The call started to link or load extension n.
Attempted(n) ==
    \E i \in At(events, "link_extension") \cup At(events, "load_extension") :
        events[i].ext = n

\* The points of extension n whose link or load callable a call invoked, in
\* order.
RECURSIVE HookPoints(_, _)
HookPoints(evs, n) ==
    IF evs = <<>> THEN <<>>
    ELSE (IF Head(evs).ext = n /\ Head(evs).ev \in HookEvents
          THEN <<Head(evs).point>> ELSE <<>>)
         \o HookPoints(Tail(evs), n)

\* A point without app whose module defines neither conventional hook.
NoHookPoint(p) ==
    /\ "app" \notin DOMAIN p.metadata
    /\ ModuleTable[p._module_name].link = "absent"
    /\ ModuleTable[p._module_name].load = "absent"

\* C11: for a point without app whose module defines neither hook, linking
\* invokes the default no-op and raises nothing, and loading invokes nothing
\* and raises the loader-not-found error.
C11_HookLookupAsymmetric ==
    \A n \in EnabledNames : \A k \in PointNames(n) :
        NoHookPoint(Point(n, k)) =>
            /\ Point(n, k).nlink = 0 /\ Point(n, k).nload = 0
            /\ \A i \in DOMAIN events :
                  (events[i].ext = n /\ events[i].point = k
                   /\ events[i].ev \in HookEvents) =>
                      /\ events[i].ev = "link_default"
                      /\ (i = Len(events) \/ events[i + 1].ev # "raised")
            /\ (call.op \in LinkOps /\ Attempted(n)
                /\ k = extension_points(Package(n)).keys[1]) =>
                  \E i \in At(events, "link_default") :
                      events[i].ext = n /\ events[i].point = k
            /\ (call.op \in LoadOps /\ Attempted(n)
                /\ k = extension_points(Package(n)).keys[1]) =>
                  \E i \in At(events, "raised") :
                      events[i].ext = n /\ events[i].point = "LoaderNotFound"

\* load_extension of "a", whose only point has no app and a module without
\* hooks: the loader is not found.
C11_Witness ==
    /\ call.op = "load_extension"
    /\ call.ext = <<1>>
    /\ <<1>> \in EnabledNames
    /\ \A k \in PointNames(<<1>>) : NoHookPoint(Point(<<1>>, k))
    /\ \E i \in At(events, "raised") : events[i].point = "LoaderNotFound"

C13_NoIsolationInPackage ==
    call.op \in LinkOps \cup LoadOps =>
        \A n \in EnabledNames :
            LET ks == extension_points(Package(n)).keys
                hs == HookPoints(events, n)
                rs == {i \in At(events, "raised") : events[i].ext = n}
            IN  /\ Len(hs) <= Len(ks)
                /\ hs = SubSeq(ks, 1, Len(hs))
                /\ \A i \in rs :
                      /\ i < Len(events)
                      /\ events[i + 1].ev = "warning"
                      /\ events[i + 1].ext = n
                      /\ events[i + 1].point = events[i].point
                      /\ \A j \in DOMAIN events :
                            j > i => ~(events[j].ext = n
                                       /\ events[j].ev \in HookEvents)
                /\ (rs = {} /\ Attempted(n)) => hs = ks

\* load_extension of "ab": its first point loads, the load hook of its second
\* point raises, its third point is not loaded.
C13_Witness ==
    /\ call.op = "load_extension"
    /\ call.ext = <<1, 2>>
    /\ <<1, 2>> \in EnabledNames
    /\ Len(extension_points(Package(<<1, 2>>)).keys) = 3
    /\ HookPoints(events, <<1, 2>>) = <<"modLinkRaise", "modLoadRaise">>
    /\ \E i \in At(events, "raised") : events[i].point = "HookError"

\* The call started ev once for every enabled name and for no other, in
\* ascending order, did everything of one extension before anything of the
\* next, and returned normally.
OncePerExtension(ev) ==
    LET started == Attempts(events, ev)
    IN  /\ call.exc = "none"
        /\ Ascending(started)
        /\ Range(started) = EnabledNames
        /\ \A i \in DOMAIN events : events[i].ext \in EnabledNames
        /\ \A i, j \in DOMAIN events :
              i < j => ~StrLess(events[j].ext, events[i].ext)

\* C14: one link_all_extensions (load_all_extensions) call starts
\* link_extension (load_extension) exactly once for every enabled extension
\* and for no other name, in ascending name order, to the end of the set even
\* when extensions fail, one extension's hooks all before the next one's.
C14_AllExtensionsOncePerInvocation ==
    /\ call.op = "link_all_extensions" => OncePerExtension("link_extension")
    /\ call.op = "load_all_extensions" => OncePerExtension("load_extension")

\* load_all_extensions over three extensions that were added out of order,
\* two of them failing.
C14_Witness ==
    /\ call.op = "load_all_extensions"
    /\ EnabledNames = Names
    /\ ~Ascending(Registry.keys)
    /\ Cardinality(At(events, "warning")) = 2
    /\ At(events, "load_hook") # {}

\* C15: link_extension of a name that is not enabled ends with the lookup
\* error, logs no warning, invokes no hook and changes nothing.
C15_LinkAbsentNamePropagates ==
    [][(call'.op = "link_extension"
        /\ call'.ext \notin DictKeys(_enabled_extensions)) =>
          /\ call'.exc = "KeyError"
          /\ At(events', "warning") = {}
          /\ \A i \in DOMAIN events' : events'[i].ev \notin HookEvents
          /\ UNCHANGED <<_enabled_extensions, _linked_extensions,
                         _linked_points>>]_vars

\* link_extension of a name that is not enabled, other names being enabled.
C15_Witness ==
    /\ call.op = "link_extension"
    /\ call.ext \notin EnabledNames
    /\ call.exc = "KeyError"
    /\ EnabledNames # {}

\* C16: load_extension of a name that is not enabled returns normally: the
\* failure on the absent reference is logged as a warning, no hook is
\* invoked and the enabled set is unchanged.
C16_LoadAbsentNameSuppressed ==
    [][(call'.op = "load_extension"
        /\ call'.ext \notin DictKeys(_enabled_extensions)) =>
          /\ call'.exc = "none"
          /\ \E i \in At(events', "warning") :
                events'[i].point = "AttributeError"
          /\ \A i \in DOMAIN events' : events'[i].ev \notin HookEvents
          /\ _enabled_extensions' = _enabled_extensions]_vars

\* load_extension of a name that is not enabled, other names being enabled.
C16_Witness ==
    /\ call.op = "load_extension"
    /\ call.ext \notin EnabledNames
    /\ At(events, "warning") # {}
    /\ EnabledNames # {}

\* The last packet of md that declares point name k.
LastPacket(md, k) ==
    md[CHOOSE i \in DOMAIN md :
          /\ DeclaredName(md[i]) = k
          /\ \A j \in DOMAIN md : DeclaredName(md[j]) = k => j <= i]

\* C17: a package holds one point per distinct declared point name, built
\* from the last packet declaring that name, and a link or load call
\* invokes at most one hook under that name.
C17_LastPacketWins ==
    \A n \in EnabledNames :
        LET md == Package(n)._metadata
        IN  /\ Len(extension_points(Package(n)).keys)
                  = Cardinality({DeclaredName(md[i]) : i \in DOMAIN md})
            /\ \A k \in PointNames(n) :
                  /\ Point(n, k)._module_name = LastPacket(md, k).module
                  /\ Point(n, k).metadata.module = LastPacket(md, k).module
                  /\ (call.op \in LinkOps \cup LoadOps) =>
                        Cardinality({i \in DOMAIN events :
                                        /\ events[i].ev \in HookEvents
                                        /\ events[i].ext = n
                                        /\ events[i].point = k}) <= 1

\* link_extension of "b", two packets of which declare the point name "P".
C17_Witness ==
    /\ call.op = "link_extension"
    /\ call.ext = <<2>>
    /\ <<2>> \in EnabledNames
    /\ Len(Package(<<2>>)._metadata) = 2
    /\ extension_points(Package(<<2>>)).keys = <<"P">>
    /\ HookPoints(events, <<2>>) = <<"P">>

\* C18: add_extension on one manager leaves the enabled_extensions and the
\* linked-state map of every other manager unchanged.
C18_ManagersOwnTheirRegistry ==
    [][call'.op = "add_extension" =>
          \A m \in Managers \ {call'.self} :
              /\ manager_enabled_extensions(m)' = manager_enabled_extensions(m)
              /\ manager_linked_extensions(m)' = manager_linked_extensions(m)]_vars

\* What a registered package is, apart from the record of its hook calls.
Identity(pkg) ==
    [name |-> pkg.name,
     _metadata |-> pkg._metadata,
     keys |-> extension_points(pkg).keys,
     points |-> [k \in DictKeys(extension_points(pkg)) |->
                    [metadata |-> extension_points(pkg).val[k].metadata,
                     _module_name |-> extension_points(pkg).val[k]._module_name]]]

\* C19: no call removes a name from the enabled set, and the link and load
\* calls leave the enabled names, their order and their packages as they
\* were.
C19_OnlyAddMutates ==
    [][/\ DictKeys(_enabled_extensions) \subseteq DictKeys(_enabled_extensions')
       /\ call'.op \in LinkOps \cup LoadOps =>
             /\ _enabled_extensions'.keys = _enabled_extensions.keys
             /\ \A n \in DictKeys(_enabled_extensions) :
                   Identity(_enabled_extensions'.val[n])
                       = Identity(_enabled_extensions.val[n])]_vars

\* add_extension of an enabled name has failed and the name is still enabled.
C19_Witness ==
    /\ call.op = "add_extension"
    /\ At(events, "raised") # {}
    /\ call.ext \in EnabledNames

\* C20: load_extension of an enabled extension goes to the load hook of the
\* package's first point, whether or not any link hook of the extension has
\* run: it invokes that hook, or fails to find it.
C20_LoadNotGatedOnLink ==
    \A i \in At(events, "load_extension") :
        events[i].ext \in EnabledNames =>
            LET n == events[i].ext
                k == extension_points(Package(n)).keys[1]
                p == Point(n, k)
                loc == IF truthy(app(p)) THEN app(p) ELSE module(p)
            IN  /\ i < Len(events)
                /\ events[i + 1].ext = n
                /\ IF loc.load = "absent"
                   THEN /\ events[i + 1].ev = "raised"
                        /\ events[i + 1].point = "LoaderNotFound"
                   ELSE /\ events[i + 1].ev = "load_hook"
                        /\ events[i + 1].point = k
                        /\ p.nload >= 1

\* load_extension of "ab" has invoked the load hook of the point whose link
\* hook raised in an earlier link call.
C20_Witness ==
    /\ call.op = "load_extension"
    /\ call.ext = <<1, 2>>
    /\ <<1, 2>> \in EnabledNames
    /\ "modLinkRaise" \in PointNames(<<1, 2>>)
    /\ Point(<<1, 2>>, "modLinkRaise").nlink = 1
    /\ Point(<<1, 2>>, "modLinkRaise").nload = 1

====
